---------------------------- MODULE Spec2Model ----------------------------
(***************************************************************************)
(* Model of the typed SQL statement layer of database-rs (src/src/sql.rs): *)
(* the Type catalogue and its compatibility relation, the Value literals,  *)
(* the ColumnDef builder with its panicking setters, and the ToSql         *)
(* serializer of columns and statements.                                   *)
(*                                                                         *)
(* Five specifications share the module:                                   *)
(*   Spec      a caller driving one ColumnDef builder chain                *)
(*   SpecStmt  a caller assembling a Statement and serializing it          *)
(*   SpecType  Type::compatible_with and Type::fmt_sql on a pair of Types  *)
(*   SpecValue Value::ty and Value::fmt_sql applied to a Value             *)
(*   SpecDb    the SQLite Database constructors (src/src/sqlite.rs)        *)
(***************************************************************************)
EXTENDS Integers, Sequences, FiniteSets, TLC

VARIABLES
    col,    \* Spec: the ColumnDef the caller holds (None before new / after a panic)
    prev,   \* Spec: the ColumnDef the caller held when it made the last call
    arg,    \* Spec: the argument of the last builder call
    last,   \* Spec: the last builder call and what came back from it
    stmt,   \* SpecStmt: the statement under assembly (None before construction)
    ret,    \* SpecStmt: what the last call on the statement returned
    lhs,    \* SpecType: `self` of compatible_with
    rhs,    \* SpecType: `other` of compatible_with
    res,    \* SpecType: the returned bool (None before the call)
    sql,    \* SpecType: what serializing lhs and rhs returned (None before the call)
    val,    \* SpecValue: the Value
    vty,    \* SpecValue: what Value::ty returned (None before the call)
    vsql,   \* SpecValue: what serializing the Value returned (None before the call)
    files,  \* SpecDb: the database files on disk
    call    \* SpecDb: the last constructor call and what it returned

vars == <<col, prev, arg, last, stmt, ret, lhs, rhs, res, sql, val, vty, vsql, files, call>>

(***************************************************************************)
(* Bounds of the model.                                                    *)
(***************************************************************************)
\* longest text / byte payload of a String, Clob or Blob value, in characters / bytes
MaxLen == 2
\* most columns pushed on one CREATE TABLE statement
MaxCols == 2
\* Float(p) precisions explored besides the 32 and 64 that Value::ty produces
MaxPrec == 1

(***************************************************************************)
(* Option<T>: None is the empty sequence, Some(x) the one-element one.     *)
(***************************************************************************)
None == <<>>
Some(x) == <<x>>
IsSome(o) == o # <<>>
Unwrap(o) == o[1]

(***************************************************************************)
(* enum Type.  A Type is [tag, n]; n is the usize parameter of Float,      *)
(* Character, VarChar, Blob and Clob and 0 for the unit variants.          *)
(***************************************************************************)
Ty(tag) == [tag |-> tag, n |-> 0]
TyN(tag, n) == [tag |-> tag, n |-> n]

SignedInts == {"TinyInt", "SmallInt", "Int", "BigInt"}
UnsignedInts == {"TinyIntUnsigned", "SmallIntUnsigned", "IntUnsigned", "BigIntUnsigned"}
IntTags == SignedInts \cup UnsignedInts
UnitTags == {"Boolean", "Real", "Date", "Time", "DateTime"} \cup IntTags
SizedTags == {"Character", "VarChar", "Blob", "Clob"}

\* the widths a payload of at most MaxLen characters can have in bytes (see Utf8Len)
Widths == 0..(2 * MaxLen)
Precisions == (1..MaxPrec) \cup {32, 64}

Type ==
    {Ty(t) : t \in UnitTags}
    \cup {TyN("Float", p) : p \in Precisions}
    \cup {TyN(t, n) : t \in SizedTags, n \in Widths}

\* the bit width the enum's documentation gives each integer variant
IntBits(tag) ==
    CASE tag \in {"TinyInt", "TinyIntUnsigned"} -> 8
      [] tag \in {"SmallInt", "SmallIntUnsigned"} -> 16
      [] tag \in {"Int", "IntUnsigned"} -> 32
      [] tag \in {"BigInt", "BigIntUnsigned"} -> 64

IsSigned(tag) == tag \in SignedInts

(***************************************************************************)
(* Type::compatible_with: the arms of the match, tried in source order.    *)
(***************************************************************************)
\* the Boolean arm without Float(_)
ArmBoolean_no_float(self, other) ==
    /\ self.tag = "Boolean"
    /\ other.tag \in IntTags \cup {"Real"}

\* (Boolean, BigInt | ... | TinyIntUnsigned | Float(_) | Real)
ArmBoolean(self, other) ==
    /\ self.tag = "Boolean"
    /\ other.tag \in IntTags \cup {"Float", "Real"}

\* the widening arm with the unsigned types admitted on the right of the signed ones
ArmWiden_crossing(self, other) ==
    /\ self.tag \in IntTags
    /\ other.tag \in IntTags
    /\ IntBits(self.tag) < IntBits(other.tag)
    /\ (IsSigned(self.tag) \/ ~IsSigned(other.tag))

\* the widening arm with each integer type cast only into the next wider one
ArmWiden_adjacent(self, other) ==
    /\ self.tag \in IntTags
    /\ other.tag \in IntTags
    /\ IsSigned(self.tag) = IsSigned(other.tag)
    /\ IntBits(other.tag) = 2 * IntBits(self.tag)

\* (TinyInt, SmallInt | Int | BigInt) | (TinyIntUnsigned, ...) | ... | (IntUnsigned, BigIntUnsigned)
ArmWiden(self, other) ==
    \/ self.tag = "TinyInt" /\ other.tag \in {"SmallInt", "Int", "BigInt"}
    \/ self.tag = "TinyIntUnsigned"
       /\ other.tag \in {"SmallIntUnsigned", "IntUnsigned", "BigIntUnsigned"}
    \/ self.tag = "SmallInt" /\ other.tag \in {"Int", "BigInt"}
    \/ self.tag = "SmallIntUnsigned" /\ other.tag \in {"IntUnsigned", "BigIntUnsigned"}
    \/ self.tag = "Int" /\ other.tag = "BigInt"
    \/ self.tag = "IntUnsigned" /\ other.tag = "BigIntUnsigned"

\* the integer-to-real arm with Boolean listed among the integers
ArmIntToReal_with_boolean(self, other) ==
    /\ self.tag \in IntTags \cup {"Boolean"}
    /\ other.tag \in {"Float", "Real"}

\* (TinyInt | ... | BigIntUnsigned, Float(_) | Real)
ArmIntToReal(self, other) ==
    /\ self.tag \in IntTags
    /\ other.tag \in {"Float", "Real"}

\* the string arm without Clob on the left
ArmString_no_clob(self, other) ==
    /\ self.tag \in {"Character", "VarChar"}
    /\ other.tag \in {"Character", "VarChar", "Clob"}

\* (Character(llen) | VarChar(llen) | Clob(llen), Character(rlen) | VarChar(rlen) | Clob(rlen))
ArmString(self, other) ==
    /\ self.tag \in {"Character", "VarChar", "Clob"}
    /\ other.tag \in {"Character", "VarChar", "Clob"}

\* the date/time arm matching in either direction
ArmDateTime_symmetric(self, other) ==
    \/ self.tag \in {"Date", "Time"} /\ other.tag = "DateTime"
    \/ self.tag = "DateTime" /\ other.tag \in {"Date", "Time"}

\* (Date | Time, DateTime)
ArmDateTime(self, other) ==
    /\ self.tag \in {"Date", "Time"}
    /\ other.tag = "DateTime"

\* compatible_with comparing the string widths with < instead of <=
compatible_with_strict(self, other) ==
    IF ArmBoolean(self, other) THEN TRUE
    ELSE IF ArmWiden(self, other) THEN TRUE
    ELSE IF ArmIntToReal(self, other) THEN TRUE
    ELSE IF ArmString(self, other) THEN self.n < other.n
    ELSE IF ArmDateTime(self, other) THEN TRUE
    ELSE self = other

compatible_with(self, other) ==
    IF ArmBoolean(self, other) THEN TRUE
    ELSE IF ArmWiden(self, other) THEN TRUE
    ELSE IF ArmIntToReal(self, other) THEN TRUE
    ELSE IF ArmString(self, other) THEN self.n <= other.n
    ELSE IF ArmDateTime(self, other) THEN TRUE
    ELSE self = other

(***************************************************************************)
(* The Formatter a fmt_sql writes to, and what the call comes to:          *)
(* st = "ok" while every write returned Ok(()), "panic" once the thread    *)
(* unwinds; buf is the text written so far.                                *)
(***************************************************************************)
Formatter == [st |-> "ok", buf |-> ""]

\* write!(f, ...)?: appends, and is not reached once the call has unwound
Write(f, s) == IF f.st = "ok" THEN [f EXCEPT !.buf = @ \o s] ELSE f

\* todo!(): panics with "not yet implemented"
Todo(f) == IF f.st = "ok" THEN [f EXCEPT !.st = "panic"] ELSE f

(***************************************************************************)
(* impl ToSql for Type                                                     *)
(***************************************************************************)
Type_fmt_sql(self, f) ==
    CASE self.tag = "Boolean" -> Write(f, "BIT")
      [] self.tag = "BigInt" -> Write(f, "BIGINT")
      [] self.tag = "BigIntUnsigned" -> Write(f, "BIGINT UNSIGNED")
      [] self.tag = "Int" -> Write(f, "INT")
      [] self.tag = "IntUnsigned" -> Write(f, "INT UNSIGNED")
      [] self.tag = "SmallInt" -> Write(f, "SMALLINT")
      [] self.tag = "SmallIntUnsigned" -> Write(f, "SMALLINT UNSIGNED")
      [] self.tag = "TinyInt" -> Write(f, "TINYINT")
      [] self.tag = "TinyIntUnsigned" -> Write(f, "TINYINT UNSIGNED")
      [] self.tag = "Float" -> Write(f, "FLOAT(" \o ToString(self.n) \o ")")
      [] self.tag = "Real" -> Write(f, "REAL")
      [] self.tag = "Character" -> Write(f, "CHARACTER(" \o ToString(self.n) \o ")")
      [] self.tag = "VarChar" -> Write(f, "VARCHAR(" \o ToString(self.n) \o ")")
      [] self.tag = "Date" -> Write(f, "DATE")
      [] self.tag = "Time" -> Write(f, "TIME")
      [] self.tag = "DateTime" -> Write(f, "TIMESTAMP")
      [] self.tag = "Blob" -> Write(f, "BLOB(" \o ToString(self.n) \o ")")
      [] self.tag = "Clob" -> Write(f, "BLOB(" \o ToString(self.n) \o ")")


(***************************************************************************)
(* Payloads.  A Rust String is a sequence of characters; "a" is a one-byte *)
(* character and "E" stands for a two-byte one (U+00C9 in UTF-8).  A       *)
(* Vec<u8> is a sequence of bytes.  Floats are counted in halves, so that  *)
(* whole and fractional values both occur.                                 *)
(***************************************************************************)
Alphabet == {"a", "E"}
Bytes == {0, 255}

RECURSIVE SeqsUpTo(_, _)
SeqsUpTo(S, k) ==
    IF k = 0 THEN {<<>>}
    ELSE LET shorter == SeqsUpTo(S, k - 1)
         IN  shorter \cup {Append(s, x) : s \in {t \in shorter : Len(t) = k - 1}, x \in S}

Texts == SeqsUpTo(Alphabet, MaxLen)
Blobs == SeqsUpTo(Bytes, MaxLen)

Utf8Len(c) == IF c = "E" THEN 2 ELSE 1

\* String::len: the length in bytes, not in characters
RECURSIVE String_len(_)
String_len(s) == IF s = <<>> THEN 0 ELSE Utf8Len(Head(s)) + String_len(Tail(s))

\* Vec::len
Vec_len(b) == Len(b)

\* Display of a String: its characters, unescaped
RECURSIVE String_fmt(_)
String_fmt(s) == IF s = <<>> THEN "" ELSE Head(s) \o String_fmt(Tail(s))

\* Display of the integer types: decimal, with a leading '-' when negative
Int_fmt(i) == ToString(i)

\* Display of f32 / f64 for a value of h halves: 4 -> "2", -3 -> "-1.5"
Float_fmt(h) ==
    LET a == IF h < 0 THEN -h ELSE h
    IN  (IF h < 0 THEN "-" ELSE "")
        \o ToString(a \div 2)
        \o (IF a % 2 = 1 THEN ".5" ELSE "")

Pad2(n) == IF n < 10 THEN "0" \o ToString(n) ELSE ToString(n)
Pad4(n) ==
    IF n < 10 THEN "000" \o ToString(n)
    ELSE IF n < 100 THEN "00" \o ToString(n)
    ELSE IF n < 1000 THEN "0" \o ToString(n)
    ELSE ToString(n)

\* dt.format("%Y-%m-%d %H:%M:%S")
DateTime_format(dt) ==
    Pad4(dt.year) \o "-" \o Pad2(dt.month) \o "-" \o Pad2(dt.day)
    \o " " \o Pad2(dt.hour) \o ":" \o Pad2(dt.minute) \o ":" \o Pad2(dt.second)

Instants ==
    { [year |-> 2024, month |-> 1, day |-> 2, hour |-> 3, minute |-> 4, second |-> 5],
      [year |-> 1999, month |-> 12, day |-> 31, hour |-> 23, minute |-> 59, second |-> 58] }

(***************************************************************************)
(* enum Value.  A Value is [tag, v].                                       *)
(***************************************************************************)
Val(tag, v) == [tag |-> tag, v |-> v]

SignedPayloads == {-1, 2}
UnsignedPayloads == {0, 2}
FloatPayloads == {-3, 4}

Value ==
    {Val("Boolean", b) : b \in BOOLEAN}
    \cup {Val(t, i) : t \in SignedInts, i \in SignedPayloads}
    \cup {Val(t, i) : t \in UnsignedInts, i \in UnsignedPayloads}
    \cup {Val(t, h) : t \in {"Float", "Double"}, h \in FloatPayloads}
    \cup {Val("String", s) : s \in Texts}
    \cup {Val("DateTime", dt) : dt \in Instants}
    \cup {Val("Blob", b) : b \in Blobs}
    \cup {Val("Clob", c) : c \in Texts}

\* Value::ty
Value_ty(self) ==
    CASE self.tag = "Boolean" -> Ty("Boolean")
      [] self.tag \in IntTags -> Ty(self.tag)
      [] self.tag = "Float" -> TyN("Float", 32)
      [] self.tag = "Double" -> TyN("Float", 64)
      [] self.tag = "String" -> TyN("Character", String_len(self.v))
      [] self.tag = "DateTime" -> Ty("DateTime")
      [] self.tag = "Blob" -> TyN("Blob", Vec_len(self.v))
      [] self.tag = "Clob" -> TyN("Clob", String_len(self.v))

\* impl ToSql for Value
Value_fmt_sql(self, fmt) ==
    CASE self.tag = "Boolean" -> Write(fmt, IF self.v THEN "1" ELSE "0")
      [] self.tag \in IntTags -> Write(fmt, Int_fmt(self.v))
      [] self.tag \in {"Float", "Double"} -> Write(fmt, Float_fmt(self.v))
      [] self.tag = "String" -> Write(fmt, "\"" \o String_fmt(self.v) \o "\"")
      [] self.tag = "DateTime" -> Write(fmt, DateTime_format(self.v))
      [] self.tag = "Blob" -> Todo(fmt)
      [] self.tag = "Clob" -> Write(fmt, "\"" \o String_fmt(self.v) \o "\"")

(***************************************************************************)
(* struct ColumnDef and its builder.  A setter takes self by value and     *)
(* returns it; one that panics returns nothing and the column it consumed  *)
(* is dropped while the thread unwinds.                                    *)
(***************************************************************************)
Returned(c) == [st |-> "ok", col |-> Some(c)]
Panicked == [st |-> "panic", col |-> None]

\* ColumnDef::new
ColumnDef_new(name, ty) ==
    [name |-> name, ty |-> ty, auto_increment |-> FALSE, not_null |-> FALSE,
     default |-> None]

\* ColumnDef::name
ColumnDef_name(self, name) == Returned([self EXCEPT !.name = name])

\* ColumnDef::ty without the check of the default against the new type
ColumnDef_ty_unchecked(self, ty) == Returned([self EXCEPT !.ty = ty])

\* ColumnDef::ty asking whether the new type casts into the default's type
ColumnDef_ty_reversed(self, ty) ==
    IF IsSome(self.default) /\ ~compatible_with(ty, Value_ty(Unwrap(self.default)))
    THEN Panicked
    ELSE Returned([self EXCEPT !.ty = ty])

\* ColumnDef::ty
ColumnDef_ty(self, ty) ==
    IF IsSome(self.default) /\ ~compatible_with(Value_ty(Unwrap(self.default)), ty)
    THEN Panicked
    ELSE Returned([self EXCEPT !.ty = ty])

\* ColumnDef::auto_increment
ColumnDef_auto_increment(self, auto_increment) ==
    Returned([self EXCEPT !.auto_increment = auto_increment])

\* ColumnDef::not_null assigning the field of the setter above it
ColumnDef_not_null_wrong_field(self, not_null) ==
    Returned([self EXCEPT !.auto_increment = not_null])

\* ColumnDef::not_null
ColumnDef_not_null(self, not_null) == Returned([self EXCEPT !.not_null = not_null])

\* ColumnDef::default without the check of the value against the column's type
ColumnDef_default_unchecked(self, default) == Returned([self EXCEPT !.default = default])

\* ColumnDef::default
ColumnDef_default(self, default) ==
    IF IsSome(default) /\ ~compatible_with(Value_ty(Unwrap(default)), self.ty)
    THEN Panicked
    ELSE Returned([self EXCEPT !.default = default])

\* impl ToSql for ColumnDef
ColumnDef_fmt_sql(self, f) ==
    LET f1 == Write(f, "\"" \o self.name \o "\" ")
        f2 == Type_fmt_sql(self.ty, f1)
        f3 == IF self.auto_increment THEN Write(f2, " AUTO_INCREMENT") ELSE f2
        f4 == IF self.not_null THEN Write(f3, " NOT NULL") ELSE f3
    IN  IF IsSome(self.default)
        THEN Value_fmt_sql(Unwrap(self.default), Write(f4, " DEFAULT "))
        ELSE f4

(***************************************************************************)
(* The statements.                                                         *)
(***************************************************************************)
CreateTable(name, cols) == [kind |-> "CreateTable", name |-> name, cols |-> cols]
UseDatabase(name) == [kind |-> "UseDatabase", name |-> name, cols |-> <<>>]

\* the for loop of StatementCreateTable::fmt_sql, from column i on
RECURSIVE FmtCols(_, _, _, _)
FmtCols(cols, i, first, f) ==
    IF i > Len(cols) THEN f
    ELSE LET sep == IF first THEN f ELSE Write(f, ", ")
         IN  FmtCols(cols, i + 1, FALSE, ColumnDef_fmt_sql(cols[i], sep))

\* impl ToSql for StatementCreateTable
StatementCreateTable_fmt_sql(self, f) ==
    LET head == Write(f, "CREATE TABLE \"" \o self.name \o "\" (")
        body == FmtCols(self.cols, 1, TRUE, head)
    IN  Write(body, "};")

\* StatementUseDatabase::fmt_sql quoting the name as the other statements do
StatementUseDatabase_fmt_sql_quoted(self, f) == Write(f, "USE \"" \o self.name \o "\";")

\* impl ToSql for StatementUseDatabase
StatementUseDatabase_fmt_sql(self, f) == Write(f, "USE " \o self.name \o ";")

\* impl ToSql for Statement
Statement_fmt_sql(self, f) ==
    IF self.kind = "CreateTable"
    THEN StatementCreateTable_fmt_sql(self, f)
    ELSE StatementUseDatabase_fmt_sql(self, f)

\* serialize_sql(obj).to_string(): the text, or nothing when fmt_sql panicked
to_string(f) ==
    IF f.st = "ok" THEN [st |-> "ok", text |-> Some(f.buf)]
    ELSE [st |-> "panic", text |-> None]

(***************************************************************************)
(* src/src/sqlite.rs and src/src/common.rs: the database files, the        *)
(* config files, and the two constructors of Database.                     *)
(***************************************************************************)
Paths == {"a.db", "b.db"}

\* a file on disk: whether it exists, how often an init callback ran on it,
\* and whether one of those runs failed
NoFile == [exists |-> FALSE, inits |-> 0, init_failed |-> FALSE]
OldFile == [exists |-> TRUE, inits |-> 0, init_failed |-> FALSE]

NoDbCall ==
    [fn |-> "none", path |-> "", existed |-> FALSE, failed_before |-> FALSE,
     opened |-> FALSE, init_ran |-> FALSE, result |-> "none"]
IdleDb == files = [p \in Paths |-> NoFile] /\ call = NoDbCall

\* Database::new reading path.exists() once the connection is open
Database_new_exists_after_open(fs, path, open_ok, init_ok) ==
    IF ~open_ok
    THEN [files |-> fs, opened |-> FALSE, init_ran |-> FALSE, result |-> "DatabaseOpen"]
    ELSE LET fs1 == [fs EXCEPT ![path].exists = TRUE]
             run_init == ~fs1[path].exists
         IN  IF run_init
             THEN [files |-> [fs1 EXCEPT ![path].inits = @ + 1,
                                         ![path].init_failed = @ \/ ~init_ok],
                   opened |-> TRUE, init_ran |-> TRUE,
                   result |-> IF init_ok THEN "Ok" ELSE "InitFailed"]
             ELSE [files |-> fs1, opened |-> TRUE, init_ran |-> FALSE, result |-> "Ok"]

\* Database::new.  open_ok: whether sqlite::open succeeds (it creates a missing
\* file when it does); init_ok: whether the init callback returns Ok(())
Database_new(fs, path, open_ok, init_ok) ==
    LET run_init == ~fs[path].exists
    IN  IF ~open_ok
        THEN [files |-> fs, opened |-> FALSE, init_ran |-> FALSE, result |-> "DatabaseOpen"]
        ELSE LET fs1 == [fs EXCEPT ![path].exists = TRUE]
             IN  IF run_init
                 THEN [files |-> [fs1 EXCEPT ![path].inits = @ + 1,
                                             ![path].init_failed = @ \/ ~init_ok],
                       opened |-> TRUE, init_ran |-> TRUE,
                       result |-> IF init_ok THEN "Ok" ELSE "InitFailed"]
                 ELSE [files |-> fs1, opened |-> TRUE, init_ran |-> FALSE, result |-> "Ok"]

\* a config file: whether File::open succeeds, its extension, what it holds
\* ("config": a ConfigFile in the format of the extension) and the path it names
Extensions == {"json", "yml", "yaml", "toml", "txt"}
Contents == {"config", "garbage", "not_utf8"}
ConfigFiles == [openable : BOOLEAN, ext : Extensions, content : Contents, path : Paths]

\* common::load_config_file::<ConfigFile>
load_config_file(cfg) ==
    IF ~cfg.openable THEN [err |-> "FileOpen", kind |-> "", path |-> ""]
    ELSE IF cfg.ext = "json"
    THEN IF cfg.content = "config" THEN [err |-> "", kind |-> "", path |-> cfg.path]
         ELSE [err |-> "FileRead", kind |-> "JSON", path |-> ""]
    ELSE IF cfg.ext \in {"yml", "yaml"}
    THEN IF cfg.content = "config" THEN [err |-> "", kind |-> "", path |-> cfg.path]
         ELSE [err |-> "FileRead", kind |-> "YAML", path |-> ""]
    ELSE IF cfg.ext = "toml"
    THEN IF cfg.content = "not_utf8" THEN [err |-> "FileRead", kind |-> "UTF-8", path |-> ""]
         ELSE IF cfg.content = "config" THEN [err |-> "", kind |-> "", path |-> cfg.path]
         ELSE [err |-> "FileRead", kind |-> "TOML", path |-> ""]
    ELSE [err |-> "UnknownExt", kind |-> "", path |-> ""]

\* Database::from_path
Database_from_path(fs, cfg, open_ok, init_ok) ==
    LET config == load_config_file(cfg)
    IN  IF config.err = ""
        THEN [path |-> config.path] @@ Database_new(fs, config.path, open_ok, init_ok)
        ELSE [path |-> "", files |-> fs, opened |-> FALSE, init_ran |-> FALSE,
              result |-> "ConfigLoad"]

(***************************************************************************)
(* The inputs the callers draw from.                                       *)
(***************************************************************************)
Names == {"id", "bar"}
TableNames == {"foo"}
DbNames == {"foo", "main"}

\* the builder chain is driven with one Type of every variant and one Value of
\* every variant; the text <<"a", "E">> is two characters and three bytes long
BuilderTypes ==
    {Ty(t) : t \in UnitTags}
    \cup {TyN("Float", 32), TyN("VarChar", 1), TyN("Blob", 1)}
    \cup {TyN(t, MaxLen) : t \in {"Character", "VarChar", "Clob"}}
BuilderValues ==
    {Val("Boolean", b) : b \in BOOLEAN}
    \cup {Val(t, -1) : t \in SignedInts}
    \cup {Val(t, 2) : t \in UnsignedInts}
    \cup {Val("Float", -3), Val("Double", 4), Val("String", <<"a">>),
          Val("String", <<"a", "E">>), Val("Clob", <<"a">>), Val("Blob", <<255>>)}
    \cup {Val("DateTime", dt) : dt \in {i \in Instants : i.year = 2024}}
BuilderDefaults == {None} \cup {Some(v) : v \in BuilderValues}

\* the columns of a CREATE TABLE are built from these
StmtTypes == {Ty("IntUnsigned"), TyN("VarChar", MaxLen), TyN("Blob", 1)}
StmtDefaults ==
    {None, Some(Val("IntUnsigned", 2)), Some(Val("String", <<"a">>)),
     Some(Val("Blob", <<255>>))}

NoArg == [name |-> "", ty |-> None, flag |-> FALSE, default |-> None]
NoCall == [op |-> "none", st |-> "ok", text |-> None]
Outcome(op, st) == [op |-> op, st |-> st, text |-> None]

IdleColumn == col = None /\ prev = None /\ arg = NoArg /\ last = NoCall
IdleStmt == stmt = None /\ ret = NoCall
IdleType == lhs = Ty("Boolean") /\ rhs = Ty("Boolean") /\ res = None /\ sql = None
IdleValue == val = Val("Boolean", FALSE) /\ vty = None /\ vsql = None

(***************************************************************************)
(* Spec: one builder chain.  Each action is one call of the caller.        *)
(***************************************************************************)
Init == IdleColumn /\ IdleStmt /\ IdleType /\ IdleValue /\ IdleDb

\* the caller moves its column into a setter and keeps what comes back
Apply(op, a, r) ==
    /\ prev' = col
    /\ arg' = a
    /\ col' = r.col
    /\ last' = Outcome(op, r.st)
    /\ UNCHANGED <<stmt, ret, lhs, rhs, res, sql, val, vty, vsql, files, call>>

CallNew(name, ty) ==
    /\ prev' = None
    /\ arg' = [NoArg EXCEPT !.name = name, !.ty = Some(ty)]
    /\ col' = Some(ColumnDef_new(name, ty))
    /\ last' = Outcome("new", "ok")
    /\ UNCHANGED <<stmt, ret, lhs, rhs, res, sql, val, vty, vsql, files, call>>

CallName(name) ==
    /\ IsSome(col)
    /\ Apply("name", [NoArg EXCEPT !.name = name], ColumnDef_name(Unwrap(col), name))

CallTy(ty) ==
    /\ IsSome(col)
    /\ Apply("ty", [NoArg EXCEPT !.ty = Some(ty)], ColumnDef_ty(Unwrap(col), ty))

CallAutoIncrement(b) ==
    /\ IsSome(col)
    /\ Apply("auto_increment", [NoArg EXCEPT !.flag = b],
             ColumnDef_auto_increment(Unwrap(col), b))

CallNotNull(b) ==
    /\ IsSome(col)
    /\ Apply("not_null", [NoArg EXCEPT !.flag = b], ColumnDef_not_null(Unwrap(col), b))

CallDefault(d) ==
    /\ IsSome(col)
    /\ Apply("default", [NoArg EXCEPT !.default = Some(d)],
             ColumnDef_default(Unwrap(col), d))

\* serialize_sql(&col).to_string(): the column is only borrowed
CallColumnToSql ==
    /\ IsSome(col)
    /\ prev' = col
    /\ arg' = NoArg
    /\ col' = col
    /\ last' = [op |-> "fmt_sql"] @@ to_string(ColumnDef_fmt_sql(Unwrap(col), Formatter))
    /\ UNCHANGED <<stmt, ret, lhs, rhs, res, sql, val, vty, vsql, files, call>>

Next ==
    \/ \E name \in Names, ty \in BuilderTypes : CallNew(name, ty)
    \/ \E name \in Names : CallName(name)
    \/ \E ty \in BuilderTypes : CallTy(ty)
    \/ \E b \in BOOLEAN : CallAutoIncrement(b)
    \/ \E b \in BOOLEAN : CallNotNull(b)
    \/ \E d \in BuilderDefaults : CallDefault(d)
    \/ CallColumnToSql

Spec == Init /\ [][Next]_vars

(***************************************************************************)
(* SpecStmt: a caller assembles a statement and serializes it.             *)
(***************************************************************************)
InitStmt == IdleColumn /\ IdleStmt /\ IdleType /\ IdleValue /\ IdleDb

\* ColumnDef::new(name, ty).auto_increment(ai).not_null(nn).default(d)
BuildColumn(name, ty, ai, nn, d) ==
    LET c1 == Unwrap(ColumnDef_auto_increment(ColumnDef_new(name, ty), ai).col)
        c2 == Unwrap(ColumnDef_not_null(c1, nn).col)
    IN  ColumnDef_default(c2, d)

MakeCreateTable(name) ==
    /\ stmt' = Some(CreateTable(name, <<>>))
    /\ ret' = Outcome("CreateTable", "ok")
    /\ UNCHANGED <<col, prev, arg, last, lhs, rhs, res, sql, val, vty, vsql, files, call>>

MakeUseDatabase(name) ==
    /\ stmt' = Some(UseDatabase(name))
    /\ ret' = Outcome("UseDatabase", "ok")
    /\ UNCHANGED <<col, prev, arg, last, lhs, rhs, res, sql, val, vty, vsql, files, call>>

\* stmt.cols.push(ColumnDef::new(..)...): a panicking builder takes the caller down
PushColumn(name, ty, ai, nn, d) ==
    /\ IsSome(stmt)
    /\ Unwrap(stmt).kind = "CreateTable"
    /\ Len(Unwrap(stmt).cols) < MaxCols
    /\ LET r == BuildColumn(name, ty, ai, nn, d)
       IN  /\ stmt' = IF r.st = "ok"
                      THEN Some([Unwrap(stmt) EXCEPT !.cols = Append(@, Unwrap(r.col))])
                      ELSE None
           /\ ret' = Outcome("push", r.st)
    /\ UNCHANGED <<col, prev, arg, last, lhs, rhs, res, sql, val, vty, vsql, files, call>>

\* serialize_sql(&Statement::CreateTable(..) | &Statement::UseDatabase(..)).to_string()
SerializeStatement ==
    /\ IsSome(stmt)
    /\ ret' = [op |-> "Statement"] @@ to_string(Statement_fmt_sql(Unwrap(stmt), Formatter))
    /\ UNCHANGED <<stmt, col, prev, arg, last, lhs, rhs, res, sql, val, vty, vsql, files, call>>

\* serialize_sql(&StatementCreateTable { .. }).to_string()
SerializeCreateTable ==
    /\ IsSome(stmt)
    /\ Unwrap(stmt).kind = "CreateTable"
    /\ ret' = [op |-> "StatementCreateTable"]
              @@ to_string(StatementCreateTable_fmt_sql(Unwrap(stmt), Formatter))
    /\ UNCHANGED <<stmt, col, prev, arg, last, lhs, rhs, res, sql, val, vty, vsql, files, call>>

\* serialize_sql(&StatementUseDatabase { .. }).to_string()
SerializeUseDatabase ==
    /\ IsSome(stmt)
    /\ Unwrap(stmt).kind = "UseDatabase"
    /\ ret' = [op |-> "StatementUseDatabase"]
              @@ to_string(StatementUseDatabase_fmt_sql(Unwrap(stmt), Formatter))
    /\ UNCHANGED <<stmt, col, prev, arg, last, lhs, rhs, res, sql, val, vty, vsql, files, call>>

NextStmt ==
    \/ \E name \in TableNames : MakeCreateTable(name)
    \/ \E name \in DbNames : MakeUseDatabase(name)
    \/ \E name \in Names, ty \in StmtTypes, ai \in BOOLEAN, nn \in BOOLEAN,
          d \in StmtDefaults : PushColumn(name, ty, ai, nn, d)
    \/ SerializeStatement
    \/ SerializeCreateTable
    \/ SerializeUseDatabase

SpecStmt == InitStmt /\ [][NextStmt]_vars

(***************************************************************************)
(* SpecType: compatible_with applied to every ordered pair of Types.       *)
(***************************************************************************)
InitType ==
    /\ IdleColumn /\ IdleStmt /\ IdleValue /\ IdleDb
    /\ lhs \in Type
    /\ rhs \in Type
    /\ res = None
    /\ sql = None

CallCompatibleWith ==
    /\ res = None
    /\ res' = Some(compatible_with(lhs, rhs))
    /\ UNCHANGED <<lhs, rhs, sql, col, prev, arg, last, stmt, ret, val, vty, vsql, files, call>>

\* serialize_sql(&lhs).to_string() and serialize_sql(&rhs).to_string()
CallTypeToSql ==
    /\ sql = None
    /\ sql' = Some(<<to_string(Type_fmt_sql(lhs, Formatter)),
                     to_string(Type_fmt_sql(rhs, Formatter))>>)
    /\ UNCHANGED <<lhs, rhs, res, col, prev, arg, last, stmt, ret, val, vty, vsql, files, call>>

NextType == CallCompatibleWith \/ CallTypeToSql

SpecType == InitType /\ [][NextType]_vars

(***************************************************************************)
(* SpecValue: Value::ty and Value::fmt_sql applied to every Value.         *)
(***************************************************************************)
InitValue ==
    /\ IdleColumn /\ IdleStmt /\ IdleType /\ IdleDb
    /\ val \in Value
    /\ vty = None
    /\ vsql = None

CallValueTy ==
    /\ vty = None
    /\ vty' = Some(Value_ty(val))
    /\ UNCHANGED <<val, vsql, col, prev, arg, last, stmt, ret, lhs, rhs, res, sql, files, call>>

\* serialize_sql(&val).to_string()
CallValueToSql ==
    /\ vsql = None
    /\ vsql' = Some(to_string(Value_fmt_sql(val, Formatter)))
    /\ UNCHANGED <<val, vty, col, prev, arg, last, stmt, ret, lhs, rhs, res, sql, files, call>>

NextValue == CallValueTy \/ CallValueToSql

SpecValue == InitValue /\ [][NextValue]_vars

(***************************************************************************)
(* SpecDb: a process calling Database::new and Database::from_path on      *)
(* paths where a database file may or may not exist yet.                   *)
(***************************************************************************)
InitDb ==
    /\ IdleColumn /\ IdleStmt /\ IdleType /\ IdleValue
    /\ files \in [Paths -> {NoFile, OldFile}]
    /\ call = NoDbCall

\* the record of a constructor call on `path` that returned r, with what was
\* on disk when it was made
Called(fn, path, r) ==
    [fn |-> fn, path |-> path,
     existed |-> IF path \in Paths THEN files[path].exists ELSE FALSE,
     failed_before |-> IF path \in Paths THEN files[path].init_failed ELSE FALSE,
     opened |-> r.opened, init_ran |-> r.init_ran, result |-> r.result]

CallDatabaseNew(path, open_ok, init_ok) ==
    /\ files' = Database_new(files, path, open_ok, init_ok).files
    /\ call' = Called("new", path, Database_new(files, path, open_ok, init_ok))
    /\ UNCHANGED <<col, prev, arg, last, stmt, ret, lhs, rhs, res, sql, val, vty, vsql>>

CallDatabaseFromPath(cfg, open_ok, init_ok) ==
    /\ files' = Database_from_path(files, cfg, open_ok, init_ok).files
    /\ call' = LET r == Database_from_path(files, cfg, open_ok, init_ok)
               IN  Called("from_path", r.path, r)
    /\ UNCHANGED <<col, prev, arg, last, stmt, ret, lhs, rhs, res, sql, val, vty, vsql>>

NextDb ==
    \/ \E path \in Paths, open_ok \in BOOLEAN, init_ok \in BOOLEAN :
          CallDatabaseNew(path, open_ok, init_ok)
    \/ \E cfg \in ConfigFiles, open_ok \in BOOLEAN, init_ok \in BOOLEAN :
          CallDatabaseFromPath(cfg, open_ok, init_ok)

SpecDb == InitDb /\ [][NextDb]_vars

(***************************************************************************)
(* The claims.                                                             *)
(***************************************************************************)
Col == Unwrap(col)
Prev == Unwrap(prev)
DefaultTy(c) == Value_ty(Unwrap(c.default))

\* C1: whenever the column the caller holds has a default, the default's type
\* is compatible with the column's declared type.
C1_DefaultCompatible ==
    (IsSome(col) /\ IsSome(Col.default)) => compatible_with(DefaultTy(Col), Col.ty)

\* a retyped column that kept its default
C1_Witness ==
    /\ last.op = "ty"
    /\ IsSome(col)
    /\ IsSome(Col.default)
    /\ Col.ty # Prev.ty

\* the default setter was called with Some(value) whose type does not cast into the column's
DefaultMismatch ==
    /\ last.op = "default"
    /\ IsSome(Unwrap(arg.default))
    /\ ~compatible_with(Value_ty(Unwrap(Unwrap(arg.default))), Prev.ty)

\* C2 as stated: a mismatching default fails recoverably and leaves the column as it was.
C2_Original == DefaultMismatch => (last.st # "panic" /\ col = prev)

\* C2 as amended: a mismatching default panics and no column comes back; the
\* column that was moved into the call is dropped.
C2_DefaultMismatchPanics == DefaultMismatch => (last.st = "panic" /\ col = None)

C2_Witness == DefaultMismatch /\ last.st = "panic" /\ IsSome(prev)

\* the ty setter was called on a column with / without a default
TyWithDefault == last.op = "ty" /\ IsSome(Prev.default)
TyWithoutDefault == last.op = "ty" /\ ~IsSome(Prev.default)
NewTy == Unwrap(arg.ty)
Retyped == Some([Prev EXCEPT !.ty = NewTy])

\* C3 as stated: retyping against the default fails recoverably with the column
\* unchanged; retyping to a type the default casts into, or without a default, succeeds.
C3_Original ==
    /\ TyWithDefault =>
          IF compatible_with(DefaultTy(Prev), NewTy)
          THEN last.st = "ok" /\ col = Retyped
          ELSE last.st # "panic" /\ col = prev
    /\ TyWithoutDefault => (last.st = "ok" /\ col = Retyped)

\* C3 as amended: retyping against the default panics and no column comes back;
\* retyping to a type the default casts into, or without a default, succeeds and
\* changes the type alone.
C3_TySetter ==
    /\ TyWithDefault =>
          IF compatible_with(DefaultTy(Prev), NewTy)
          THEN last.st = "ok" /\ col = Retyped
          ELSE last.st = "panic" /\ col = None
    /\ TyWithoutDefault => (last.st = "ok" /\ col = Retyped)

C3_Witness ==
    /\ TyWithDefault
    /\ ~compatible_with(DefaultTy(Prev), NewTy)
    /\ last.st = "panic"

Stmt == Unwrap(stmt)
Serializations == {"Statement", "StatementCreateTable", "StatementUseDatabase"}
CreateTableSerialized == ret.op \in Serializations /\ Stmt.kind = "CreateTable"
UseDatabaseSerialized == ret.op \in Serializations /\ Stmt.kind = "UseDatabase"

\* what a node writes to an empty formatter
TypeText(ty) == Type_fmt_sql(ty, Formatter).buf
LiteralText(v) == Value_fmt_sql(v, Formatter).buf
ColumnText(c) == ColumnDef_fmt_sql(c, Formatter).buf

\* the renderings of cols[i..], joined by ", "
RECURSIVE JoinColumns(_, _)
JoinColumns(cols, i) ==
    IF i > Len(cols) THEN ""
    ELSE ColumnText(cols[i]) \o (IF i < Len(cols) THEN ", " ELSE "")
         \o JoinColumns(cols, i + 1)

\* C4 as stated: a CreateTable serializes to CREATE TABLE "{name}" ( + the column
\* renderings joined by ", " + ");", the parenthesis closed before the semicolon.
C4_CreateTableText ==
    CreateTableSerialized =>
        ret.text = Some("CREATE TABLE \"" \o Stmt.name \o "\" ("
                        \o JoinColumns(Stmt.cols, 1) \o ");")

\* "{name}" {TYPE}, then AUTO_INCREMENT, NOT NULL and DEFAULT {literal} in that order
ExpectedColumnText(c) ==
    "\"" \o c.name \o "\" " \o TypeText(c.ty)
    \o (IF c.auto_increment THEN " AUTO_INCREMENT" ELSE "")
    \o (IF c.not_null THEN " NOT NULL" ELSE "")
    \o (IF IsSome(c.default) THEN " DEFAULT " \o LiteralText(Unwrap(c.default)) ELSE "")

\* C5 as stated: every column serializes to "{name}" {TYPE} followed by the
\* suffixes AUTO_INCREMENT, NOT NULL, DEFAULT {literal} in that fixed order,
\* whatever the order of the setter calls that built it.
C5_ColumnText == last.op = "fmt_sql" => last.text = Some(ExpectedColumnText(Col))

HasBlobDefault(c) == IsSome(c.default) /\ Unwrap(c.default).tag = "Blob"

\* what does hold of the column rendering: the claimed text for every column
\* whose default is not a Blob, and no text at all for one whose default is
ColumnTextExceptBlob ==
    last.op = "fmt_sql" =>
        IF HasBlobDefault(Col)
        THEN last.st = "panic" /\ last.text = None
        ELSE /\ last.st = "ok"
             /\ last.text = Some(ExpectedColumnText(Col))
             /\ (Col = [ColumnDef_new("id", Ty("Int")) EXCEPT !.auto_increment = TRUE,
                                                             !.not_null = TRUE]
                   => last.text = Some("\"id\" INT AUTO_INCREMENT NOT NULL"))

\* C6: a UseDatabase, serialized directly or inside a Statement, gives exactly
\* USE {name}; with the name unquoted and nothing after the semicolon.
C6_UseDatabaseText ==
    UseDatabaseSerialized =>
        /\ ret.st = "ok"
        /\ ret.text = Some("USE " \o Stmt.name \o ";")
        /\ (Stmt.name = "foo" => ret.text = Some("USE foo;"))

C6_Witness == UseDatabaseSerialized /\ ret.op = "Statement" /\ Stmt.name = "foo"

\* the serialization reached a Blob literal as the default of a column
ReachesBlob ==
    /\ CreateTableSerialized
    /\ \E i \in 1..Len(Stmt.cols) : HasBlobDefault(Stmt.cols[i])

\* C7 as stated: rendering a Blob literal fails with a NotImplemented error that
\* is returned to the caller; no text comes back and nothing panics.
C7_BlobNotImplemented == ReachesBlob => (ret.st = "NotImplemented" /\ ret.text = None)

\* C8 as stated: serializing a statement whose columns all came out of the
\* builder completes and returns text.
C8_SerializationTotal == ret.op \in Serializations => (ret.st = "ok" /\ IsSome(ret.text))

\* C9: between two integer types, compatible_with is true exactly when they have the
\* same signedness and the left one is no wider than the right one.
C9_IntegerCompatibility ==
    (IsSome(res) /\ lhs.tag \in IntTags /\ rhs.tag \in IntTags) =>
        /\ Unwrap(res) = (/\ IsSigned(lhs.tag) = IsSigned(rhs.tag)
                          /\ IntBits(lhs.tag) <= IntBits(rhs.tag))
        /\ (lhs = Ty("TinyInt") /\ rhs = Ty("Int")) => Unwrap(res)
        /\ (lhs = Ty("Int") /\ rhs = Ty("TinyInt")) => ~Unwrap(res)
        /\ IsSigned(lhs.tag) # IsSigned(rhs.tag) => ~Unwrap(res)

C9_Witness == res = Some(TRUE) /\ lhs = Ty("TinyInt") /\ rhs = Ty("Int")

IsNumeric(ty) == ty.tag \in IntTags \cup {"Float", "Real"}

\* C10: Boolean is compatible with every numeric type and no numeric type is
\* compatible with Boolean.
C10_BooleanNumeric ==
    IsSome(res) =>
        /\ (lhs.tag = "Boolean" /\ IsNumeric(rhs)) => Unwrap(res)
        /\ (IsNumeric(lhs) /\ rhs.tag = "Boolean") => ~Unwrap(res)

C10_Witness == res = Some(TRUE) /\ lhs = Ty("Boolean") /\ rhs = TyN("Float", MaxPrec)

StringTags == {"Character", "VarChar", "Clob"}

\* C11: between two string-like types (Character, VarChar, Clob in any mix)
\* compatible_with is n <= m, the kinds ignored and n = m allowed.
C11_StringCompatibility ==
    (IsSome(res) /\ lhs.tag \in StringTags /\ rhs.tag \in StringTags) =>
        Unwrap(res) = (lhs.n <= rhs.n)

\* a VarChar cast into a Character of the same width
C11_Witness == res = Some(TRUE) /\ lhs = TyN("VarChar", MaxLen) /\ rhs = TyN("Character", MaxLen)

\* C12: compatible_with(T, T) is true for every Type T, the parameterised ones included.
C12_Reflexive == (IsSome(res) /\ lhs = rhs) => Unwrap(res)

C12_Witness == res = Some(TRUE) /\ lhs = rhs /\ lhs = TyN("Character", MaxLen)

\* C13: compatible_with is transitive: if A casts into B and B into C then A casts
\* into C; TinyInt casts into BigInt directly, and so in the unsigned family.
C13_Transitive ==
    IsSome(res) =>
        /\ Unwrap(res) =>
              \A c \in Type : compatible_with(rhs, c) => compatible_with(lhs, c)
        /\ (lhs = Ty("TinyInt") /\ rhs = Ty("BigInt")) => Unwrap(res)
        /\ (lhs = Ty("TinyIntUnsigned") /\ rhs = Ty("BigIntUnsigned")) => Unwrap(res)

\* TinyInt casts into SmallInt, which casts on into Int and BigInt
C13_Witness ==
    /\ res = Some(TRUE)
    /\ lhs = Ty("TinyInt")
    /\ rhs = Ty("SmallInt")
    /\ compatible_with(rhs, Ty("BigInt"))

\* the arms 1-5 of the match that the pair matches
MatchingArms(a, b) ==
    {i \in 1..5 : \/ i = 1 /\ ArmBoolean(a, b)
                  \/ i = 2 /\ ArmWiden(a, b)
                  \/ i = 3 /\ ArmIntToReal(a, b)
                  \/ i = 4 /\ ArmString(a, b)
                  \/ i = 5 /\ ArmDateTime(a, b)}

\* the arms tried last to first
CompatibleLastArmFirst(a, b) ==
    IF ArmDateTime(a, b) THEN TRUE
    ELSE IF ArmString(a, b) THEN a.n <= b.n
    ELSE IF ArmIntToReal(a, b) THEN TRUE
    ELSE IF ArmWiden(a, b) THEN TRUE
    ELSE IF ArmBoolean(a, b) THEN TRUE
    ELSE a = b

\* C15: no ordered pair of Types matches more than one of the rules 1-5, so the
\* result is the same with the rules tried in another order, and a pair matching
\* none of them is decided by equality.
C15_RulesDisjoint ==
    /\ Cardinality(MatchingArms(lhs, rhs)) <= 1
    /\ IsSome(res) =>
          /\ Unwrap(res) = CompatibleLastArmFirst(lhs, rhs)
          /\ MatchingArms(lhs, rhs) = {} => Unwrap(res) = (lhs = rhs)

\* a pair the string rule alone matches and rejects
C15_Witness ==
    /\ res = Some(FALSE)
    /\ MatchingArms(lhs, rhs) = {4}
    /\ lhs.n > rhs.n

\* C16: Date and Time cast into DateTime; DateTime casts into neither, and Date
\* and Time do not cast into each other.
C16_DateTime ==
    IsSome(res) =>
        /\ (lhs.tag \in {"Date", "Time"} /\ rhs.tag = "DateTime") => Unwrap(res)
        /\ (lhs.tag = "DateTime" /\ rhs.tag \in {"Date", "Time"}) => ~Unwrap(res)
        /\ (lhs.tag = "Date" /\ rhs.tag = "Time") => ~Unwrap(res)
        /\ (lhs.tag = "Time" /\ rhs.tag = "Date") => ~Unwrap(res)

C16_Witness == res = Some(TRUE) /\ lhs = Ty("Date") /\ rhs = Ty("DateTime")

\* C17: new gives a column with auto_increment = false, not_null = false and no
\* default; name, auto_increment and not_null always succeed and change their
\* own field alone.
C17_Frame ==
    /\ last.op = "new" =>
          /\ last.st = "ok"
          /\ IsSome(col)
          /\ Col.name = arg.name
          /\ Col.ty = Unwrap(arg.ty)
          /\ ~Col.auto_increment
          /\ ~Col.not_null
          /\ Col.default = None
    /\ last.op = "name" =>
          (last.st = "ok" /\ col = Some([Prev EXCEPT !.name = arg.name]))
    /\ last.op = "auto_increment" =>
          (last.st = "ok" /\ col = Some([Prev EXCEPT !.auto_increment = arg.flag]))
    /\ last.op = "not_null" =>
          (last.st = "ok" /\ col = Some([Prev EXCEPT !.not_null = arg.flag]))

\* not_null switched on for a column that has a default
C17_Witness ==
    /\ last.op = "not_null"
    /\ IsSome(Prev.default)
    /\ ~Prev.not_null
    /\ Col.not_null

\* C14 as stated: the type of a String, Clob or Blob value carries the number
\* of characters of the text, or of bytes of the blob, multi-byte characters
\* counting as one character each.
C14_TypeFromPayload ==
    IsSome(vty) =>
        /\ val.tag = "String" => Unwrap(vty) = TyN("Character", Len(val.v))
        /\ val.tag = "Clob" => Unwrap(vty) = TyN("Clob", Len(val.v))
        /\ val.tag = "Blob" => Unwrap(vty) = TyN("Blob", Len(val.v))

IsAscii(text) == \A i \in 1..Len(text) : Utf8Len(text[i]) = 1

\* what does hold of Value::ty: the width is the number of bytes of the payload,
\* which is the number of characters for ASCII text alone
TypeFromPayloadBytes ==
    IsSome(vty) =>
        /\ val.tag = "String" => Unwrap(vty) = TyN("Character", String_len(val.v))
        /\ val.tag = "Clob" => Unwrap(vty) = TyN("Clob", String_len(val.v))
        /\ val.tag = "Blob" => Unwrap(vty) = TyN("Blob", Len(val.v))
        /\ (val.tag \in {"String", "Clob"} /\ IsAscii(val.v)) => Unwrap(vty).n = Len(val.v)

LhsSql == Unwrap(sql)[1]
RhsSql == Unwrap(sql)[2]

\* C18 as stated: every Type renders to its one SQL spelling, with its width
\* where it has one, and two different Types never render to the same text;
\* Blob(n) and Clob(n) render differently.
C18_TypeRendering ==
    IsSome(sql) =>
        /\ LhsSql.st = "ok" /\ IsSome(LhsSql.text)
        /\ lhs.tag = "Float" => LhsSql.text = Some("FLOAT(" \o ToString(lhs.n) \o ")")
        /\ lhs.tag = "VarChar" => LhsSql.text = Some("VARCHAR(" \o ToString(lhs.n) \o ")")
        /\ lhs.tag = "DateTime" => LhsSql.text = Some("TIMESTAMP")
        /\ lhs # rhs => LhsSql.text # RhsSql.text

\* what does hold of the Type rendering: it is total, and two different Types
\* render alike exactly when they are Blob(n) and Clob(n) of one width
TypeRenderingExceptClob ==
    IsSome(sql) =>
        /\ LhsSql.st = "ok" /\ IsSome(LhsSql.text)
        /\ lhs # rhs =>
              ((LhsSql.text = RhsSql.text)
                 <=> ({lhs.tag, rhs.tag} = {"Blob", "Clob"} /\ lhs.n = rhs.n))

\* C19: init runs exactly when the file was missing before the open and the
\* open succeeded, so never on a file that exists; no file sees more than one
\* init, and once an init has failed on a file, a call that opens it returns a
\* database without running init.
C19_InitOncePerFile ==
    /\ call.init_ran = (~call.existed /\ call.opened)
    /\ \A p \in Paths : files[p].inits <= 1
    /\ call.result = "InitFailed" => files[call.path].exists
    /\ (call.failed_before /\ call.opened) => (call.result = "Ok" /\ ~call.init_ran)

\* a call on the file of a failed init, which hands out the database as it is
C19_Witness ==
    /\ call.fn = "new"
    /\ call.failed_before
    /\ call.result = "Ok"
    /\ ~call.init_ran
    /\ files[call.path].inits = 1

=============================================================================
